---- MODULE Spec2Model ----
(***************************************************************************)
(* Model of the dialect resolver of bft (src/bft/dialects/types.py):       *)
(* class Dialect, built once from a DialectFile, answering                 *)
(* mapping_for_case and supports_kernel.                                   *)
(*                                                                         *)
(* A dialect is immutable after construction, so the catalog is drawn in   *)
(* the initial state and every action is one call on it; `call` and `ret`  *)
(* record the last call and what it produced.                              *)
(***************************************************************************)
EXTENDS Integers, Sequences, FiniteSets, TLC

VARIABLES dialect, environ, call, ret

vars == <<dialect, environ, call, ret>>

(***************************************************************************)
(* Bounds of the model.                                                    *)
(***************************************************************************)
\* most literal arguments of a case
MaxArgs == 3
\* most kernels a catalog function declares
MaxKernels == 2
\* most declared argument types over all the kernels of a function
MaxDeclared == 3
\* most (key, value) option pairs a case requests
MaxOptions == 2
\* most argument types of a kernel asked of supports_kernel
MaxQueried == 2

(***************************************************************************)
(* Values.                                                                 *)
(***************************************************************************)
\* variadic_min of a function that is not variadic
NotVariadic == -1

\* Python's None where a string is expected
None == "None"

\* the keys of type_to_short_type that start with "any"
WildcardNames == {"any", "any1", "any2", "any3"}

\* ktype.startswith("any"), over the type names of the registry
StartsWithAny(ktype) == ktype \in WildcardNames

\* the types of the literals of a case
ArgTypes == {"i32", "fp64"}

\* the types a kernel declares
DeclTypes == {"i32", "fp64", "any", "any1"}

Min(a, b) == IF a < b THEN a ELSE b

SeqsUpTo(S, n) == UNION {[1..k -> S] : k \in 0..n}

(***************************************************************************)
(* The catalog records.                                                    *)
(***************************************************************************)
DialectKernel(arg_types, result_type) ==
    [arg_types |-> arg_types, result_type |-> result_type]

DialectFunction(name, local_name, aggregate, required_options, variadic_min, supported_kernels) ==
    [name |-> name, local_name |-> local_name,
     infix |-> FALSE, postfix |-> FALSE, between |-> FALSE,
     aggregate |-> aggregate, unsupported |-> FALSE, extract |-> FALSE,
     required_options |-> required_options,
     variadic_min |-> variadic_min,
     supported_kernels |-> supported_kernels]

DialectFile(name, scalar_functions, aggregate_functions, uri_to_func_prefix) ==
    [name |-> name, type |-> "sql",
     scalar_functions |-> scalar_functions,
     aggregate_functions |-> aggregate_functions,
     uri_to_func_prefix |-> uri_to_func_prefix]

SqlMapping(dfunc, should_pass, reason) ==
    [outcome |-> "SqlMapping",
     local_name |-> dfunc.local_name,
     infix |-> dfunc.infix, postfix |-> dfunc.postfix,
     between |-> dfunc.between, aggregate |-> dfunc.aggregate,
     unsupported |-> dfunc.unsupported, extract |-> dfunc.extract,
     should_pass |-> should_pass, reason |-> reason]

\* a call that produced no SqlMapping: it returned None, returned a bool,
\* or left by an exception
NoMapping(outcome, reason) ==
    [outcome |-> outcome, local_name |-> None,
     infix |-> FALSE, postfix |-> FALSE, between |-> FALSE,
     aggregate |-> FALSE, unsupported |-> FALSE, extract |-> FALSE,
     should_pass |-> FALSE, reason |-> reason]

\* {f.name: f for f in functions}: a later entry of the same name wins
RECURSIVE ByName(_)
ByName(functions) ==
    IF functions = <<>> THEN <<>>
    ELSE LET n == Len(functions)
             rest == ByName(SubSeq(functions, 1, n - 1))
             f == functions[n]
         IN [k \in DOMAIN rest \cup {f.name} |->
                IF k = f.name THEN f ELSE rest[k]]

\* Dialect.__init__
NewDialect(dialect_file) ==
    [name |-> dialect_file.name,
     scalar_functions_by_name |-> ByName(dialect_file.scalar_functions),
     aggregate_functions_by_name |-> ByName(dialect_file.aggregate_functions),
     func_prefixes |-> dialect_file.uri_to_func_prefix]

(***************************************************************************)
(* Kernel matching: Dialect.__supports_case_kernel.                        *)
(***************************************************************************)
\* supported_kernel.arg_types * len(args)
RECURSIVE Repeat(_, _)
Repeat(s, n) == IF n <= 0 THEN <<>> ELSE s \o Repeat(s, n - 1)

\* mutant of ArgLen: an aggregate is filtered by its number of arguments too
ArgLen_CountsArgs(dfunc, args) == Len(args)

\* the effective arity a kernel is filtered by
ArgLen(dfunc, args) == IF dfunc.aggregate THEN 1 ELSE Len(args)

\* mutant of SkipsKernel: a variadic function's kernels are filtered too
SkipsKernel_IgnoresVariadic(dfunc, supported_kernel, args) ==
    Len(supported_kernel.arg_types) # (IF dfunc.aggregate THEN 1 ELSE Len(args))

\* the `continue` of the loop over the kernels
SkipsKernel(dfunc, supported_kernel, args) ==
    /\ Len(supported_kernel.arg_types) # ArgLen(dfunc, args)
    /\ dfunc.variadic_min = NotVariadic

\* mutant of KernelArgTypes: a single-entry kernel is not broadcast
KernelArgTypes_NoBroadcast(dfunc, supported_kernel, args) ==
    supported_kernel.arg_types

\* the argument types a kernel is paired with the arguments by
KernelArgTypes(dfunc, supported_kernel, args) ==
    IF dfunc.variadic_min # NotVariadic /\ Len(supported_kernel.arg_types) = 1
    THEN Repeat(supported_kernel.arg_types, Len(args))
    ELSE supported_kernel.arg_types

\* how far zip(kernel_arg_types, args) goes
ZipLen(kernel_arg_types, args) == Min(Len(kernel_arg_types), Len(args))

\* mutant of ZipMatch: a wildcard matches any type, whatever it was bound to
RECURSIVE ZipMatch_NoBinding(_, _, _, _)
ZipMatch_NoBinding(kernel_arg_types, args, i, any_map) ==
    IF i > ZipLen(kernel_arg_types, args) THEN TRUE
    ELSE IF args[i].type # kernel_arg_types[i]
            /\ ~StartsWithAny(kernel_arg_types[i])
         THEN FALSE
         ELSE ZipMatch_NoBinding(kernel_arg_types, args, i + 1, any_map)

\* the loop over zip(kernel_arg_types, args), from pair i on, with the
\* wildcard bindings made so far: the final value of `matched`
RECURSIVE ZipMatch(_, _, _, _)
ZipMatch(kernel_arg_types, args, i, any_map) ==
    IF i > ZipLen(kernel_arg_types, args) THEN TRUE
    ELSE LET ktype == kernel_arg_types[i]
             arg == args[i]
         IN IF arg.type # ktype /\ ~StartsWithAny(ktype) THEN FALSE
            ELSE IF StartsWithAny(ktype)
                 THEN IF ktype \notin DOMAIN any_map
                      THEN ZipMatch(kernel_arg_types, args, i + 1,
                                    [k \in DOMAIN any_map \cup {ktype} |->
                                        IF k = ktype THEN arg.type
                                        ELSE any_map[k]])
                      ELSE IF any_map[ktype] # arg.type THEN FALSE
                           ELSE ZipMatch(kernel_arg_types, args, i + 1, any_map)
                 ELSE ZipMatch(kernel_arg_types, args, i + 1, any_map)

\* one kernel tried after the arity filter
KernelMatches(dfunc, supported_kernel, args) ==
    ZipMatch(KernelArgTypes(dfunc, supported_kernel, args), args, 1, <<>>)

\* case_to_kernel_str: the function, the argument types and the result
case_to_kernel_str(name, args, result) ==
    <<name>> \o [i \in 1..Len(args) |-> args[i].type] \o <<result>>

\* the loop over dfunc.supported_kernels from kernel j on.  The value is
\* [kind, index, reason]: "None" with the index of the kernel that matched,
\* "failure" with the message, or "Exception" for the raise.
RECURSIVE KernelLoop(_, _, _, _, _, _)
KernelLoop(self, dfunc, args, result, j, arg_len_matched) ==
    IF j > Len(dfunc.supported_kernels)
    THEN IF ~arg_len_matched
         THEN [kind |-> "Exception", index |-> 0,
               reason |-> <<"Unreachable path">>]
         ELSE [kind |-> "failure", index |-> 0,
               reason |-> <<"kernel", self.name>>
                          \o case_to_kernel_str(dfunc.name, args, result)]
    ELSE LET supported_kernel == dfunc.supported_kernels[j]
         IN IF SkipsKernel(dfunc, supported_kernel, args)
            THEN KernelLoop(self, dfunc, args, result, j + 1, arg_len_matched)
            ELSE IF KernelMatches(dfunc, supported_kernel, args)
                 THEN [kind |-> "None", index |-> j, reason |-> <<>>]
                 ELSE KernelLoop(self, dfunc, args, result, j + 1, TRUE)

supports_case_kernel(self, dfunc, args, result) ==
    KernelLoop(self, dfunc, args, result, 1, FALSE)

(***************************************************************************)
(* Option matching: Dialect.__supports_options.                            *)
(***************************************************************************)
\* dfunc.required_options.get(case_opt)
GetOption(required_options, case_opt) ==
    IF case_opt \in DOMAIN required_options
    THEN required_options[case_opt] ELSE None

\* mutant of OptionLoop: only the first requested option is checked
OptionLoop_FirstOnly(self, dfunc, options, i) ==
    IF i > Len(options) THEN <<>>
    ELSE LET dval == GetOption(dfunc.required_options, options[i][1])
         IN IF dval # None /\ dval # options[i][2]
            THEN <<"option", self.name, options[i][1], dval, options[i][2]>>
            ELSE <<>>

\* the loop over case.options from pair i on: <<>> for None, or the message
RECURSIVE OptionLoop(_, _, _, _)
OptionLoop(self, dfunc, options, i) ==
    IF i > Len(options) THEN <<>>
    ELSE LET case_opt == options[i][1]
             case_val == options[i][2]
             dval == GetOption(dfunc.required_options, case_opt)
         IN IF dval = None THEN OptionLoop(self, dfunc, options, i + 1)
            ELSE IF dval # case_val
                 THEN <<"option", self.name, case_opt, dval, case_val>>
                 ELSE OptionLoop(self, dfunc, options, i + 1)

supports_options(self, dfunc, case) == OptionLoop(self, dfunc, case.options, 1)

(***************************************************************************)
(* Name resolution and the end-to-end resolution.                          *)
(***************************************************************************)
\* self.__func_prefixes.get(case.base_uri, "")
GetPrefix(self, base_uri) ==
    IF base_uri \in DOMAIN self.func_prefixes
    THEN self.func_prefixes[base_uri] ELSE ""

\* Dialect._get_function_name
get_function_name(self, case) ==
    LET prefix == GetPrefix(self, case.base_uri)
    IN IF Len(prefix) > 0 THEN prefix \o "." \o case.function
       ELSE case.function

\* the function of the catalog a name stands for: the scalar one first
HasFunction(self, func_name) ==
    \/ func_name \in DOMAIN self.scalar_functions_by_name
    \/ func_name \in DOMAIN self.aggregate_functions_by_name

LookupFunction(self, func_name) ==
    IF func_name \in DOMAIN self.scalar_functions_by_name
    THEN self.scalar_functions_by_name[func_name]
    ELSE self.aggregate_functions_by_name[func_name]

\* what mapping_for_case does once the function is found
ResolveFound(self, dfunc, case) ==
    LET kernel_failure == supports_case_kernel(self, dfunc, case.args, case.result)
    IN IF kernel_failure.kind = "Exception"
       THEN NoMapping("Exception", kernel_failure.reason)
       ELSE IF kernel_failure.kind = "failure"
            THEN SqlMapping(dfunc, FALSE, kernel_failure.reason)
            ELSE LET option_failure == supports_options(self, dfunc, case)
                 IN IF option_failure # <<>>
                    THEN SqlMapping(dfunc, FALSE, option_failure)
                    ELSE SqlMapping(dfunc, TRUE, <<>>)

\* Dialect.mapping_for_case under the environment env
mapping_for_case(self, env, case) ==
    LET func_name == get_function_name(self, case)
    IN IF ~HasFunction(self, func_name)
       THEN IF "PYTEST_CURRENT_TEST" \notin env
            THEN NoMapping("None", <<>>)
            ELSE NoMapping("Skipped", <<"skip", case.base_uri, case.function>>)
       ELSE ResolveFound(self, LookupFunction(self, func_name), case)

(***************************************************************************)
(* The direct kernel existence check: Dialect.supports_kernel.             *)
(***************************************************************************)
\* mutant of ExactZip: a declared wildcard matches any queried type
RECURSIVE ExactZip_Wildcard(_, _, _)
ExactZip_Wildcard(declared, queried, i) ==
    IF i > Min(Len(declared), Len(queried)) THEN TRUE
    ELSE IF queried[i] # declared[i] /\ ~StartsWithAny(declared[i]) THEN FALSE
         ELSE ExactZip_Wildcard(declared, queried, i + 1)

\* the loop over zip(supported_kernel.arg_types, kernel.arg_types)
RECURSIVE ExactZip(_, _, _)
ExactZip(declared, queried, i) ==
    IF i > Min(Len(declared), Len(queried)) THEN TRUE
    ELSE IF queried[i] # declared[i] THEN FALSE
         ELSE ExactZip(declared, queried, i + 1)

RECURSIVE ExactLoop(_, _, _)
ExactLoop(dfunc, kernel, j) ==
    IF j > Len(dfunc.supported_kernels) THEN FALSE
    ELSE LET supported_kernel == dfunc.supported_kernels[j]
         IN IF Len(supported_kernel.arg_types) # Len(kernel.arg_types)
            THEN ExactLoop(dfunc, kernel, j + 1)
            ELSE IF ExactZip(supported_kernel.arg_types, kernel.arg_types, 1)
                 THEN TRUE
                 ELSE ExactLoop(dfunc, kernel, j + 1)

supports_kernel(self, function_name, kernel) ==
    IF function_name \notin DOMAIN self.scalar_functions_by_name THEN FALSE
    ELSE ExactLoop(self.scalar_functions_by_name[function_name], kernel, 1)

(***************************************************************************)
(* Actions: one call each.                                                 *)
(***************************************************************************)
\* The resolver is synchronous and single-threaded: a call is made when the
\* caller holds no pending result, and Return hands the result to the caller.
MappingForCase(case) ==
    /\ call.op = "init"
    /\ call' = [op |-> "mapping_for_case", case |-> case]
    /\ ret' = mapping_for_case(dialect, environ, case)
    /\ UNCHANGED <<dialect, environ>>

SupportsKernel(function_name, kernel) ==
    /\ call.op = "init"
    /\ call' = [op |-> "supports_kernel", function_name |-> function_name,
                kernel |-> kernel]
    /\ ret' = [outcome |-> "bool",
               value |-> supports_kernel(dialect, function_name, kernel)]
    /\ UNCHANGED <<dialect, environ>>

Return ==
    /\ call.op # "init"
    /\ call' = [op |-> "init"]
    /\ ret' = [outcome |-> "init"]
    /\ UNCHANGED <<dialect, environ>>

(***************************************************************************)
(* Inputs.                                                                 *)
(***************************************************************************)
CaseLiteral(type) == [type |-> type, value |-> "1"]

Case(base_uri, function, argtypes, options) ==
    [base_uri |-> base_uri, function |-> function,
     args |-> [i \in 1..Len(argtypes) |-> CaseLiteral(argtypes[i])],
     result |-> "error", options |-> options]

\* the kernel lists of at most k kernels declaring at most n types in all,
\* each of the types T
RECURSIVE KernelListsOf(_, _, _)
KernelListsOf(T, k, n) ==
    IF k = 0 THEN {<<>>}
    ELSE {<<>>} \cup
         UNION {{<<s>> \o rest : rest \in KernelListsOf(T, k - 1, n - Len(s))} :
                  s \in SeqsUpTo(T, n)}

AsKernels(ks) == [i \in 1..Len(ks) |-> DialectKernel(ks[i], "fp64")]

\* a catalog of one function, listed by its aggregate flag
OneFunctionFile(f) ==
    DialectFile("db", IF f.aggregate THEN <<>> ELSE <<f>>,
                IF f.aggregate THEN <<f>> ELSE <<>>, <<>>)

NoCall == [op |-> "init"]

NoRet == [outcome |-> "init"]

(***************************************************************************)
(* SpecKernel: one function of any kernels, cases without options.         *)
(***************************************************************************)
KernelFunctions ==
    {DialectFunction("add", "ADD", aggregate, <<>>, variadic_min, AsKernels(ks)) :
        aggregate \in BOOLEAN, variadic_min \in {NotVariadic, 1},
        ks \in KernelListsOf(DeclTypes, MaxKernels, MaxDeclared)}

KernelCases ==
    {Case("u1", "add", argtypes, <<>>) : argtypes \in SeqsUpTo(ArgTypes, MaxArgs)}

InitKernel ==
    /\ dialect \in {NewDialect(OneFunctionFile(f)) : f \in KernelFunctions}
    /\ environ = {}
    /\ call = NoCall
    /\ ret = NoRet

NextKernel ==
    \/ \E case \in KernelCases : MappingForCase(case)
    \/ Return

SpecKernel == InitKernel /\ [][NextKernel]_vars

(***************************************************************************)
(* SpecOptions: one function of one kernel and any required options,       *)
(* cases that request options.                                             *)
(***************************************************************************)
OptionKeys == {"rounding", "overflow"}

OptionValues == {"TRUNCATE", "HALF_EVEN"}

\* the dicts of required options: a value for some of the keys
RequiredOptionMaps == UNION {[keys -> OptionValues] : keys \in SUBSET OptionKeys}

OptionFunctions ==
    {DialectFunction("round", "ROUND", aggregate, required_options, variadic_min,
                     AsKernels(<< <<"fp64">> >>)) :
        aggregate \in BOOLEAN, variadic_min \in {NotVariadic, 1},
        required_options \in RequiredOptionMaps}

OptionCases ==
    {Case("u1", "round", argtypes, options) :
        argtypes \in SeqsUpTo(ArgTypes, 1),
        options \in SeqsUpTo(OptionKeys \X OptionValues, MaxOptions)}

InitOptions ==
    /\ dialect \in {NewDialect(OneFunctionFile(f)) : f \in OptionFunctions}
    /\ environ = {}
    /\ call = NoCall
    /\ ret = NoRet

NextOptions ==
    \/ \E case \in OptionCases : MappingForCase(case)
    \/ Return

SpecOptions == InitOptions /\ [][NextOptions]_vars

(***************************************************************************)
(* SpecLookup: catalogs that list "add" and "ns.add" or neither, prefix    *)
(* maps over two URIs, with and without the test harness's variable.       *)
(***************************************************************************)
Uris == {"u1", "u2"}

Prefixes == {"", "ns"}

PrefixMaps == UNION {[uris -> Prefixes] : uris \in SUBSET Uris}

\* the catalog entry of a name; its local name tells the entries apart
LookupEntry(name, local_name, aggregate) ==
    DialectFunction(name, local_name, aggregate, <<>>, NotVariadic,
                    AsKernels(<< <<"i32">> >>))

\* where a name is listed
Listings == {"absent", "scalar", "aggregate"}

Listed(where, kind, name, local_name) ==
    IF where = kind THEN <<LookupEntry(name, local_name, kind = "aggregate")>>
    ELSE <<>>

LookupFiles ==
    {DialectFile("db",
                 Listed(plain, "scalar", "add", "ADD")
                    \o Listed(prefixed, "scalar", "ns.add", "NS_ADD"),
                 Listed(plain, "aggregate", "add", "ADD")
                    \o Listed(prefixed, "aggregate", "ns.add", "NS_ADD"),
                 uri_to_func_prefix) :
        plain \in Listings, prefixed \in Listings,
        uri_to_func_prefix \in PrefixMaps}

LookupCases ==
    {Case(base_uri, function, <<type>>, <<>>) :
        base_uri \in Uris, function \in {"add", "sub"}, type \in ArgTypes}

InitLookup ==
    /\ dialect \in {NewDialect(file) : file \in LookupFiles}
    /\ environ \in {{}, {"PYTEST_CURRENT_TEST"}}
    /\ call = NoCall
    /\ ret = NoRet

NextLookup ==
    \/ \E case \in LookupCases : MappingForCase(case)
    \/ Return

SpecLookup == InitLookup /\ [][NextLookup]_vars

(***************************************************************************)
(* SpecExact: one function, scalar or aggregate, queried by name and       *)
(* argument types.                                                         *)
(***************************************************************************)
ExactTypes == {"i32", "fp64", "any"}

ExactFunctions ==
    {DialectFunction("add", "ADD", aggregate, <<>>, variadic_min, AsKernels(ks)) :
        aggregate \in BOOLEAN, variadic_min \in {NotVariadic, 1},
        ks \in KernelListsOf(ExactTypes, MaxKernels, MaxQueried)}

\* the queried kernel: bft.core.function.Kernel, read for its arg_types
Kernel(arg_types) == [arg_types |-> arg_types]

InitExact ==
    /\ dialect \in {NewDialect(OneFunctionFile(f)) : f \in ExactFunctions}
    /\ environ = {}
    /\ call = NoCall
    /\ ret = NoRet

NextExact ==
    \/ \E function_name \in {"add", "sub"},
          arg_types \in SeqsUpTo(ExactTypes, MaxQueried) :
            SupportsKernel(function_name, Kernel(arg_types))
    \/ Return

SpecExact == InitExact /\ [][NextExact]_vars

(***************************************************************************)
(* What the properties read off a state.                                   *)
(***************************************************************************)
\* a mapping_for_case call has returned
Resolved == call.op = "mapping_for_case"

\* the catalog function the resolved case names
Found == Resolved /\ HasFunction(dialect, get_function_name(dialect, call.case))

CalledFunction == LookupFunction(dialect, get_function_name(dialect, call.case))

CaseArgTypes == [i \in 1..Len(call.case.args) |-> call.case.args[i].type]

DeclaredKernels ==
    {CalledFunction.supported_kernels[j].arg_types :
        j \in 1..Len(CalledFunction.supported_kernels)}

Variadic == CalledFunction.variadic_min # NotVariadic

Passed == ret.outcome = "SqlMapping" /\ ret.should_pass /\ ret.reason = <<>>

KernelRefused ==
    ret.outcome = "SqlMapping" /\ ~ret.should_pass /\ ret.reason[1] = "kernel"

Raised == ret.outcome = "Exception"

\* the argument types types are the declared types ktypes with every wildcard
\* name replaced by one concrete type
Instantiates(ktypes, types) ==
    /\ Len(ktypes) = Len(types)
    /\ \A i \in 1..Len(ktypes) :
          ktypes[i] \notin WildcardNames => types[i] = ktypes[i]
    /\ \A i, j \in 1..Len(ktypes) :
          (ktypes[i] \in WildcardNames /\ ktypes[i] = ktypes[j])
             => types[i] = types[j]

\* every argument type unifies with the one declared type T
AllUnify(T, types) ==
    IF T \in WildcardNames
    THEN \A i, j \in 1..Len(types) : types[i] = types[j]
    ELSE \A i \in 1..Len(types) : types[i] = T

\* the effective arity, as the properties state it
EffectiveArity == IF CalledFunction.aggregate THEN 1 ELSE Len(CaseArgTypes)

\* the kernel the resolved case matched, as it was paired with the arguments
MatchedKernel ==
    LET r == supports_case_kernel(dialect, CalledFunction, call.case.args,
                                  call.case.result)
    IN KernelArgTypes(CalledFunction, CalledFunction.supported_kernels[r.index],
                      call.case.args)

\* kernel matching succeeded for the resolved case
KernelSucceeded ==
    supports_case_kernel(dialect, CalledFunction, call.case.args,
                         call.case.result).kind = "None"

\* the dialect has no required value for the key of pair, or it is pair's
OptionAccepted(pair) ==
    \/ pair[1] \notin DOMAIN CalledFunction.required_options
    \/ CalledFunction.required_options[pair[1]] = pair[2]

RequestedOptions == {call.case.options[i] : i \in 1..Len(call.case.options)}

\* the resolved case names a function of neither map
Unknown ==
    /\ Resolved
    /\ ~HasFunction(dialect, get_function_name(dialect, call.case))

\* a non-empty prefix is registered for the URI of the resolved case
Registered ==
    /\ call.case.base_uri \in DOMAIN dialect.func_prefixes
    /\ dialect.func_prefixes[call.case.base_uri] # ""

\* the name the resolved case is to be looked up under
LookupName ==
    IF Registered
    THEN dialect.func_prefixes[call.case.base_uri] \o "." \o call.case.function
    ELSE call.case.function

\* the catalog entries of the lookup name
LookupEntries ==
    {f \in {dialect.scalar_functions_by_name[n] :
                n \in DOMAIN dialect.scalar_functions_by_name}
           \cup {dialect.aggregate_functions_by_name[n] :
                n \in DOMAIN dialect.aggregate_functions_by_name} :
        f.name = LookupName}

\* the catalog names equal to the function of the resolved case
PlainEntries ==
    {n \in DOMAIN dialect.scalar_functions_by_name
             \cup DOMAIN dialect.aggregate_functions_by_name :
        n = call.case.function}

\* the kernels of the scalar function a supports_kernel call names
QueriedKernels ==
    LET f == dialect.scalar_functions_by_name[call.function_name]
    IN {f.supported_kernels[j].arg_types : j \in 1..Len(f.supported_kernels)}

(***************************************************************************)
(* C1: a case whose lookup name is in neither map returns None in every    *)
(* environment, PYTEST_CURRENT_TEST set or not: it never raises and never  *)
(* answers with an SqlMapping.                                             *)
(***************************************************************************)
C1_UnknownFunctionReturnsNone == Unknown => ret.outcome = "None"

\* C1's failing input: an unknown function resolved under the test harness
C1_SkippedUnderHarness ==
    /\ Unknown
    /\ "PYTEST_CURRENT_TEST" \in environ
    /\ call.case.function = "sub"
    /\ ret.outcome = "Skipped"

(***************************************************************************)
(* C2: a case without options whose argument types instantiate a declared  *)
(* kernel of its function (scalar or aggregate, variadic or not) resolves  *)
(* with should_pass true: never should_pass false, never a raise.          *)
(***************************************************************************)
C2_DeclaredKernelPasses ==
    (Found /\ call.case.options = <<>>
       /\ \E k \in DeclaredKernels : Instantiates(k, CaseArgTypes))
        => Passed

\* C2's failing input: an aggregate declaring one kernel of two types
C2_AggregateKernelRaises ==
    /\ Found /\ CalledFunction.aggregate /\ ~Variadic
    /\ DeclaredKernels = {<<"fp64", "fp64">>}
    /\ CaseArgTypes = <<"fp64", "fp64">>
    /\ Raised

(***************************************************************************)
(* C3: for a function that is neither variadic nor aggregate, a case       *)
(* passes kernel matching exactly when some declared kernel has as many    *)
(* types as the case has arguments and the argument types instantiate it   *)
(* (concrete types equal, each wildcard name bound to one type, distinct   *)
(* names independently); a case that does not pass is answered with the    *)
(* kernel-mismatch reason when some kernel has its arity.                  *)
(***************************************************************************)
C3_FixedArityMatching ==
    (Found /\ ~Variadic /\ ~CalledFunction.aggregate) =>
        /\ Passed <=> \E k \in DeclaredKernels : Instantiates(k, CaseArgTypes)
        /\ ~Passed => (KernelRefused \/ Raised)
        /\ (\E k \in DeclaredKernels : Len(k) = Len(CaseArgTypes)) => ~Raised

\* C3's case: kernel (any, any) refuses two arguments of different types
C3_Witness ==
    /\ Found /\ ~Variadic /\ ~CalledFunction.aggregate
    /\ DeclaredKernels = {<<"any", "any">>}
    /\ CaseArgTypes = <<"i32", "fp64">>
    /\ KernelRefused

(***************************************************************************)
(* C4: for a variadic function a single-entry kernel (T) is matched as T   *)
(* repeated once per argument: a single-entry kernel all of whose          *)
(* arguments unify with T makes the case pass, a case that passes on       *)
(* single-entry kernels alone has such a kernel, and a mismatch is         *)
(* answered with the kernel-mismatch reason, not an exception.             *)
(***************************************************************************)
C4_VariadicBroadcast ==
    (Found /\ Variadic) =>
        /\ (\E k \in DeclaredKernels : Len(k) = 1 /\ AllUnify(k[1], CaseArgTypes))
              => Passed
        /\ (DeclaredKernels # {} /\ \A k \in DeclaredKernels : Len(k) = 1) =>
              /\ Passed => \E k \in DeclaredKernels : AllUnify(k[1], CaseArgTypes)
              /\ ~Passed => KernelRefused

\* C4's case: variadic_min 1, kernel (fp64), three fp64 arguments
C4_Witness ==
    /\ Found /\ CalledFunction.variadic_min = 1
    /\ DeclaredKernels = {<<"fp64">>}
    /\ CaseArgTypes = <<"fp64", "fp64", "fp64">>
    /\ Passed

(***************************************************************************)
(* C5: an aggregate function that declares a kernel of one type passes     *)
(* kernel matching for a case of any number of arguments of that type:     *)
(* the number of arguments does not change the outcome.                    *)
(***************************************************************************)
C5_AggregateArity ==
    (Found /\ CalledFunction.aggregate
       /\ \E k \in DeclaredKernels : Len(k) = 1 /\ AllUnify(k[1], CaseArgTypes))
        => Passed

\* C5's case: a non-variadic aggregate of kernel (i32), three i32 arguments
C5_Witness ==
    /\ Found /\ CalledFunction.aggregate /\ ~Variadic
    /\ DeclaredKernels = {<<"i32">>}
    /\ CaseArgTypes = <<"i32", "i32", "i32">>
    /\ Passed

(***************************************************************************)
(* C6: once the function is found and kernel matching succeeded, the case  *)
(* passes with no reason exactly when every requested (key, value) has no  *)
(* required value for key or the required value equals value; otherwise    *)
(* the answer is should_pass false with the reason naming the dialect, a   *)
(* mismatched key, the required and the requested value.  A kernel         *)
(* failure is never answered with an option reason.                        *)
(***************************************************************************)
C6_OptionMatching ==
    Found =>
        IF KernelSucceeded
        THEN /\ Passed <=> \A pair \in RequestedOptions : OptionAccepted(pair)
             /\ ~Passed =>
                  /\ ret.outcome = "SqlMapping" /\ ~ret.should_pass
                  /\ \E pair \in RequestedOptions :
                        /\ ~OptionAccepted(pair)
                        /\ ret.reason =
                             <<"option", dialect.name, pair[1],
                               CalledFunction.required_options[pair[1]], pair[2]>>
        ELSE ~Passed /\ ret.reason[1] # "option"

\* C6's case: rounding=TRUNCATE required, rounding=HALF_EVEN requested second
C6_Witness ==
    /\ Found /\ KernelSucceeded
    /\ CalledFunction.required_options = [k \in {"rounding"} |-> "TRUNCATE"]
    /\ call.case.options = << <<"overflow", "HALF_EVEN">>, <<"rounding", "HALF_EVEN">> >>
    /\ ret.outcome = "SqlMapping" /\ ~ret.should_pass
    /\ ret.reason = <<"option", "db", "rounding", "TRUNCATE", "HALF_EVEN">>

\* the part of C7 on which entry answers: the one of the lookup name or none
LookupUnderPrefixedName ==
    Resolved =>
        IF LookupEntries = {}
        THEN ret.outcome # "SqlMapping"
        ELSE /\ ret.outcome = "SqlMapping"
             /\ \E f \in LookupEntries : ret.local_name = f.local_name

(***************************************************************************)
(* C7: the case is looked up under prefix + "." + function when a          *)
(* non-empty prefix is registered for its URI and under function           *)
(* otherwise, and under no other name: the answer carries the local name   *)
(* of the entry of that name, and when a prefix is registered and only     *)
(* the entry named function exists, None is returned.                      *)
(***************************************************************************)
C7_PrefixResolution ==
    /\ LookupUnderPrefixedName
    /\ (Resolved /\ Registered /\ LookupEntries = {} /\ PlainEntries # {})
          => ret.outcome = "None"

\* C7's failing input: a prefix is registered, only the plain entry exists,
\* and the call is made under the test harness
C7_PlainEntrySkipped ==
    /\ Resolved /\ Registered
    /\ call.case.function = "add"
    /\ DOMAIN dialect.scalar_functions_by_name = {"add"}
    /\ DOMAIN dialect.aggregate_functions_by_name = {}
    /\ "PYTEST_CURRENT_TEST" \in environ
    /\ ret.outcome = "Skipped"

(***************************************************************************)
(* C8: supports_kernel answers true exactly when the name is in the        *)
(* scalar map and one of its declared kernels has the queried argument     *)
(* types, equal in length and element by element.                          *)
(***************************************************************************)
C8_ExactKernel ==
    call.op = "supports_kernel" =>
        (ret.value <=>
            /\ call.function_name \in DOMAIN dialect.scalar_functions_by_name
            /\ call.kernel.arg_types \in QueriedKernels)

\* C8's case: the kernel (any) of a variadic scalar function answers false
\* for the queried types (i32, i32)
C8_Witness ==
    /\ call.op = "supports_kernel"
    /\ call.function_name \in DOMAIN dialect.scalar_functions_by_name
    /\ dialect.scalar_functions_by_name[call.function_name].variadic_min = 1
    /\ <<"any">> \in QueriedKernels
    /\ call.kernel.arg_types = <<"i32", "i32">>
    /\ ~ret.value

(***************************************************************************)
(* C9 (amended): a found function's resolution raises the integrity        *)
(* violation exactly when no declared kernel passes the arity filter: the  *)
(* kernel list is empty, or the function is not variadic and no kernel     *)
(* has as many types as the effective arity (1 for an aggregate, else the  *)
(* number of arguments); otherwise the call returns an SqlMapping.         *)
(***************************************************************************)
C9_RaisesIffNoKernelPassesFilter ==
    Found =>
        /\ Raised <=>
              \/ DeclaredKernels = {}
              \/ /\ ~Variadic
                 /\ \A k \in DeclaredKernels : Len(k) # EffectiveArity
        /\ ~Raised => ret.outcome = "SqlMapping"

\* C9's case: a non-variadic function of kernels of one and two types
\* raises for three arguments
C9_Witness ==
    /\ Found /\ ~Variadic
    /\ DeclaredKernels = {<<"i32">>, <<"any", "any1">>}
    /\ Len(CaseArgTypes) = 3
    /\ Raised

(***************************************************************************)
(* C9 as stated: a found function's resolution raises exactly when the     *)
(* function is not variadic and no kernel has as many types as the         *)
(* effective arity.                                                        *)
(***************************************************************************)
C9_AsStated ==
    Found =>
        (Raised <=>
            /\ ~Variadic
            /\ \A k \in DeclaredKernels : Len(k) # EffectiveArity)

(***************************************************************************)
(* C10: a case of a variadic function passes only if it has at least       *)
(* variadic_min arguments and the kernel it matched has, after broadcast,  *)
(* one declared type per argument.                                         *)
(***************************************************************************)
C10_VariadicChecksEveryArgument ==
    (Found /\ Variadic /\ Passed) =>
        /\ Len(CaseArgTypes) >= CalledFunction.variadic_min
        /\ Len(MatchedKernel) = Len(CaseArgTypes)

\* C10's failing input: a third argument no declared type is paired with
C10_UncheckedArgumentPasses ==
    /\ Found /\ CalledFunction.variadic_min = 1 /\ ~CalledFunction.aggregate
    /\ DeclaredKernels = {<<"i32", "i32">>}
    /\ CaseArgTypes = <<"i32", "i32", "fp64">>
    /\ Passed

====
